---- MODULE Spec2Model ----
(***************************************************************************)
(* Model of the Govee BLE light protocol engine (GoveeAPI, api.py), its    *)
(* frame codec (GoveeUtils, api_utils.py) and its two callers: the         *)
(* coordinator's periodic poll and the light entity's service handlers.    *)
(*                                                                         *)
(* All coroutines run on one asyncio event loop, so a coroutine is atomic  *)
(* up to the next await that really suspends.  The suspending awaits of    *)
(* GoveeAPI are establish_connection, start_notify and write_gatt_char;    *)
(* every other await in api.py calls a coroutine that never suspends.      *)
(***************************************************************************)
EXTENDS Integers, Sequences, FiniteSets, TLC

(***************************************************************************)
(* Bounds of the model.                                                    *)
(***************************************************************************)
MaxBuf == 9        \* longest packet list the callers build up
MaxPayload == 19   \* longest payload handed to generateFrame

(***************************************************************************)
(* api_utils.py: protocol constants.                                       *)
(***************************************************************************)
COMMAND == 51      \* LedPacketHead.COMMAND = 0x33
REQUEST == 170     \* LedPacketHead.REQUEST = 0xaa
POWER == 1         \* LedPacketCmd.POWER
BRIGHTNESS == 4    \* LedPacketCmd.BRIGHTNESS
COLOR == 5         \* LedPacketCmd.COLOR
SEGMENT == 165     \* LedPacketCmd.SEGMENT = 0xa5
SEGMENTS == 21     \* LedColorType.SEGMENTS = 0x15
SINGLE == 2        \* LedColorType.SINGLE
LEGACY == 13       \* LedColorType.LEGACY = 0x0D
EFFECT == 4        \* LedColorType.EFFECT
Repeat == 3        \* _preparePacket(..., repeat: int = 3)
FrameBody == 19    \* generateFrame pads head+cmd+payload to 19 bytes

EFFECT_LIST ==
    << "Sunrise", "Sunset", "Movie", "Dating", "Romantic", "Blinking",
       "Candlelight", "Snowflake", "Energetic", "Spectrum", "Rainbow",
       "Breathing", "Crossing" >>

\* Optional values: Python's None, and a value that is present.
None == <<>>
Some(x) == <<x>>

\* effect_name_to_code that answers code 0 for a name not in EFFECT_LIST.
effectCodeOrFirst(name) ==
    IF \E i \in 1..Len(EFFECT_LIST) : EFFECT_LIST[i] = name
    THEN Some((CHOOSE i \in 1..Len(EFFECT_LIST) :
              /\ EFFECT_LIST[i] = name
              /\ \A j \in 1..(i - 1) : EFFECT_LIST[j] # name) - 1)
    ELSE Some(0)

\* effect_name_to_code: EFFECT_LIST.index(name), None on ValueError.
effect_name_to_code(name) ==
    IF \E i \in 1..Len(EFFECT_LIST) : EFFECT_LIST[i] = name
    THEN Some((CHOOSE i \in 1..Len(EFFECT_LIST) :
              /\ EFFECT_LIST[i] = name
              /\ \A j \in 1..(i - 1) : EFFECT_LIST[j] # name) - 1)
    ELSE None

\* LedPacket dataclass.
LedPacket(head, cmd, payload) == [head |-> head, cmd |-> cmd, payload |-> payload]

(***************************************************************************)
(* GoveeUtils: checksum and framing, computed bit by bit.                  *)
(***************************************************************************)
RECURSIVE XorByte(_, _)
XorByte(a, b) ==
    IF a = 0 THEN b
    ELSE IF b = 0 THEN a
    ELSE (((a % 2) + (b % 2)) % 2) + (2 * XorByte(a \div 2, b \div 2))

\* a ^ b for every pair of bytes, tabulated once.
XorTable == [a \in 0..255 |-> [b \in 0..255 |-> XorByte(a, b)]]

\* checksum ^= b over the first n bytes, starting from 0.
XorFold(bytes, n) ==
    LET fold[i \in 0..n] == IF i = 0 THEN 0 ELSE XorTable[fold[i - 1]][bytes[i]]
    IN  fold[n]

\* generateChecksum: XOR of all bytes, masked to 8 bits.
generateChecksum(bytes) == XorFold(bytes, Len(bytes)) % 256

Zeros(n) == [i \in 1..(IF n > 0 THEN n ELSE 0) |-> 0]

\* generateFrame: [head, cmd & 0xFF] + payload, zero-padded to 19 bytes
\* (bytes([0] * k) is empty for k <= 0), then the checksum.
generateFrame(packet) ==
    LET body   == <<packet.head, (packet.cmd % 256)>> \o packet.payload
        padded == body \o Zeros(FrameBody - Len(body))
    IN  Append(padded, generateChecksum(padded))

\* A verifyChecksum that compares the low seven bits only.
verifyChecksumLowBits(frame) ==
    (frame[Len(frame)] % 128) =
        (generateChecksum(SubSeq(frame, 1, Len(frame) - 1)) % 128)

\* verifyChecksum: last byte against the XOR of the bytes before it.
verifyChecksum(frame) ==
    frame[Len(frame)] = generateChecksum(SubSeq(frame, 1, Len(frame) - 1))

(***************************************************************************)
(* Inputs the callers and the device draw from.                            *)
(***************************************************************************)
Tasks == {"poll", "service"}
BrightnessIn == {100, 255}
ColorsIn == {<<255, 0, 0>>, <<10, 20, 30>>}
EffectNamesIn == {"Rainbow", "Disco"}

\* Cached brightness is kept in twentieths: a segmented device's report p
\* is stored by the code as p / 100 * 255 = p * 51 / 20.
BrightnessDen == 20

\* List objects alive at once: one per flush that still iterates a replaced
\* list, and the live one.
ListIds == 1..Cardinality(Tasks)
\* Client objects within the engine's reach at once: self._client and one
\* per pending await.
ClientIds == 1..(Cardinality(Tasks) + 1)

VARIABLES
    segmented,     \* GoveeAPI._segmented, fixed at construction
    state,         \* GoveeAPI.state
    brightness,    \* GoveeAPI.brightness, in twentieths
    color,         \* GoveeAPI.color
    effect,        \* GoveeAPI.effect
    data,          \* GoveeCoordinator.data
    lists,         \* the list objects: id -> sequence of LedPacket
    buf,           \* GoveeAPI._packet_buffer: id of the live list object
    clients,       \* the BleakClient objects: id -> [connected, notify]
    client,        \* GoveeAPI._client: a client id, or 0 for None
    pc,            \* per task: where its sendPacketBuffer call is suspended
    it,            \* per task: the list object its for loop iterates
    idx,           \* per task: index of the packet whose write is in flight
    wcli,          \* per task: the client object its pending await runs on
    snap,          \* per task: the buffer when sendPacketBuffer was called
    sent,          \* per task: frames its sendPacketBuffer call has written so far
    ev             \* what the last step was, when it was a call, a return or a notification

apiState == <<state, brightness, color, effect>>
flushState == <<lists, buf, clients, client, pc, it, idx, wcli, snap, sent>>
vars == <<segmented, state, brightness, color, effect, data, lists, buf, clients, client,
          pc, it, idx, wcli, snap, sent, ev>>

packet_buffer == lists[buf]

\* GoveeCoordinator._get_data
get_data == [state |-> state, brightness |-> brightness, color |-> color,
             effect |-> effect]

Event(op, task, arg) == [op |-> op, task |-> task, arg |-> arg]
Quiet == Event("await", "none", None)

Init ==
    /\ segmented \in BOOLEAN
    /\ state = None
    /\ brightness = None
    /\ color = None
    /\ effect = None
    /\ data = None
    /\ lists = [l \in ListIds |-> <<>>]
    /\ buf = 1
    /\ clients = [c \in ClientIds |-> [connected |-> FALSE, notify |-> FALSE]]
    /\ client = 0
    /\ pc = [t \in Tasks |-> "idle"]
    /\ it = [t \in Tasks |-> 0]
    /\ idx = [t \in Tasks |-> 0]
    /\ wcli = [t \in Tasks |-> 0]
    /\ snap = [t \in Tasks |-> <<>>]
    /\ sent = [t \in Tasks |-> <<>>]
    /\ ev = Event("init", "none", None)

(***************************************************************************)
(* Buffering: _preparePacket and the request*Buffered / set*Buffered       *)
(* intents.  None of them suspends, so each is one step.                   *)
(***************************************************************************)
\* _preparePacket: the packet, appended `Repeat` times to the buffer b.
preparePacket(b, cmd, payload, request) ==
    LET head   == IF request THEN REQUEST ELSE COMMAND
        packet == LedPacket(head, cmd, payload)
    IN  b \o [i \in 1..Repeat |-> packet]

requestStateBuffered(b) == preparePacket(b, POWER, <<>>, TRUE)

requestBrightnessBuffered(b) == preparePacket(b, BRIGHTNESS, <<>>, TRUE)

requestColorBuffered(b) ==
    IF segmented
    THEN preparePacket(b, SEGMENT, <<1>>, TRUE)
    ELSE preparePacket(b, COLOR, <<>>, TRUE)

\* Python's round() on brightness / 255 * 100 (no tie occurs for integers).
RoundPercent(b) == ((40 * b) + 51) \div 102

\* The live list becomes b: an idle caller has appended to it.
Buffered(t, b) ==
    /\ pc[t] = "idle"
    /\ Len(b) <= MaxBuf
    /\ lists' = [lists EXCEPT ![buf] = b]
    /\ UNCHANGED <<segmented, data, buf, clients, client, pc, it, idx, wcli, snap, sent>>

\* setStateBuffered that also records the value it asks for.
setStateOptimistic(t, v) ==
    /\ t = "service"
    /\ ev' = Event("setStateBuffered", t, v)
    /\ UNCHANGED <<brightness, color, effect>>
    /\ state' = Some(v)
    /\ IF state = Some(v)
       THEN Buffered(t, packet_buffer)
       ELSE Buffered(t, requestStateBuffered(
                preparePacket(packet_buffer, POWER, <<IF v THEN 1 ELSE 0>>, FALSE)))

setStateBuffered(t, v) ==
    /\ t = "service"
    /\ ev' = Event("setStateBuffered", t, v)
    /\ UNCHANGED apiState
    /\ IF state = Some(v)
       THEN Buffered(t, packet_buffer)
       ELSE Buffered(t, requestStateBuffered(
                preparePacket(packet_buffer, POWER, <<IF v THEN 1 ELSE 0>>, FALSE)))

\* setBrightnessBuffered without the request that follows the command.
setBrightnessNoRequest(t, b) ==
    /\ t = "service"
    /\ ev' = Event("setBrightnessBuffered", t, b)
    /\ UNCHANGED apiState
    /\ IF brightness = Some(b * BrightnessDen)
       THEN Buffered(t, packet_buffer)
       ELSE LET payload == IF segmented THEN RoundPercent(b) ELSE b
            IN  Buffered(t, preparePacket(packet_buffer, BRIGHTNESS, <<payload>>, FALSE))

setBrightnessBuffered(t, b) ==
    /\ t = "service"
    /\ ev' = Event("setBrightnessBuffered", t, b)
    /\ UNCHANGED apiState
    /\ IF brightness = Some(b * BrightnessDen)
       THEN Buffered(t, packet_buffer)
       ELSE LET payload == IF segmented THEN RoundPercent(b) ELSE b
            IN  Buffered(t, requestBrightnessBuffered(
                    preparePacket(packet_buffer, BRIGHTNESS, <<payload>>, FALSE)))

\* setColorBuffered with the LEGACY packet ahead of the SINGLE one.
setColorLegacyFirst(t, rgb) ==
    /\ t = "service"
    /\ ev' = Event("setColorBuffered", t, rgb)
    /\ UNCHANGED <<state, brightness, color>>
    /\ IF color = Some(rgb)
       THEN /\ Buffered(t, packet_buffer)
            /\ UNCHANGED effect
       ELSE /\ Buffered(t, requestColorBuffered(
                IF segmented
                THEN preparePacket(packet_buffer, COLOR,
                         <<SEGMENTS, 1, rgb[1], rgb[2], rgb[3], 0, 0, 0, 0, 0, 255, 255>>,
                         FALSE)
                ELSE preparePacket(
                         preparePacket(packet_buffer, COLOR,
                             <<LEGACY, rgb[1], rgb[2], rgb[3]>>, FALSE),
                         COLOR, <<SINGLE, rgb[1], rgb[2], rgb[3]>>, FALSE)))
            /\ effect' = None

setColorBuffered(t, rgb) ==
    /\ t = "service"
    /\ ev' = Event("setColorBuffered", t, rgb)
    /\ UNCHANGED <<state, brightness, color>>
    /\ IF color = Some(rgb)
       THEN /\ Buffered(t, packet_buffer)
            /\ UNCHANGED effect
       ELSE /\ Buffered(t, requestColorBuffered(
                IF segmented
                THEN preparePacket(packet_buffer, COLOR,
                         <<SEGMENTS, 1, rgb[1], rgb[2], rgb[3], 0, 0, 0, 0, 0, 255, 255>>,
                         FALSE)
                ELSE preparePacket(
                         preparePacket(packet_buffer, COLOR,
                             <<SINGLE, rgb[1], rgb[2], rgb[3]>>, FALSE),
                         COLOR, <<LEGACY, rgb[1], rgb[2], rgb[3]>>, FALSE)))
            /\ effect' = None

\* setEffectBuffered without the comparison with the cached effect.
setEffectUnguarded(t, effect_name) ==
    /\ t = "service"
    /\ ev' = Event("setEffectBuffered", t, effect_name)
    /\ UNCHANGED <<state, brightness, color>>
    /\ LET effect_code == effect_name_to_code(effect_name)
       IN  IF effect_code = None
           THEN /\ Buffered(t, packet_buffer)
                /\ UNCHANGED effect
           ELSE /\ Buffered(t, preparePacket(packet_buffer, COLOR,
                                   <<EFFECT, effect_code[1]>>, FALSE))
                /\ effect' = Some(effect_name)

setEffectBuffered(t, effect_name) ==
    /\ t = "service"
    /\ ev' = Event("setEffectBuffered", t, effect_name)
    /\ UNCHANGED <<state, brightness, color>>
    /\ LET effect_code == effect_name_to_code(effect_name)
       IN  IF effect_code = None \/ effect = Some(effect_name)
           THEN /\ Buffered(t, packet_buffer)
                /\ UNCHANGED effect
           ELSE /\ Buffered(t, preparePacket(packet_buffer, COLOR,
                                   <<EFFECT, effect_code[1]>>, FALSE))
                /\ effect' = Some(effect_name)

(***************************************************************************)
(* sendPacketBuffer and the coroutines it awaits.                          *)
(***************************************************************************)
Connected(c) == c # 0 /\ clients[c].connected

\* A client id no object occupies: neither self._client nor the client of a
\* pending await refers to it.
FreeClient(c) ==
    /\ c # client
    /\ \A u \in Tasks : wcli[u] # c

\* The client objects after a step that leaves the objects cl, self._client
\* = cli and the pending awaits on w.  An object nothing refers to any more
\* is out of the engine's reach and is dropped; the others are renumbered
\* in the order self._client, the poll's await, the service call's await,
\* so that one situation has one representation.
Reach(cl, cli, w) ==
    LET order    == <<cli, w["poll"], w["service"]>>
        first(c) == CHOOSE i \in 1..3 : order[i] = c /\ \A j \in 1..(i - 1) : order[j] # c
        new(c)   == IF c = 0 THEN 0
                    ELSE Cardinality({order[j] : j \in 1..first(c)} \ {0})
        used     == {order[i] : i \in 1..3} \ {0}
    IN  [clients |-> [n \in ClientIds |->
                        IF \E c \in used : new(c) = n
                        THEN cl[CHOOSE c \in used : new(c) = n]
                        ELSE [connected |-> FALSE, notify |-> FALSE]],
         client  |-> new(cli),
         wcli    |-> [u \in Tasks |-> new(w[u])]]

\* The step leaves the client objects cl, self._client = cli, awaits on w.
Clients(cl, cli, w) ==
    /\ clients' = Reach(cl, cli, w).clients
    /\ client' = Reach(cl, cli, w).client
    /\ wcli' = Reach(cl, cli, w).wcli

\* The call of task t ends: the caller gets the result or the exception, and
\* the step records what the call was given and what it wrote; cl are the
\* client objects it leaves.  The poll
\* (_async_update_data) then returns _get_data(), which the coordinator
\* stores; an exception leaves its data alone.
Return(t, cl, result, frames) ==
    /\ Clients(cl, client, [wcli EXCEPT ![t] = 0])
    /\ pc' = [pc EXCEPT ![t] = "idle"]
    /\ it' = [it EXCEPT ![t] = 0]
    /\ idx' = [idx EXCEPT ![t] = 0]
    /\ snap' = [snap EXCEPT ![t] = <<>>]
    /\ sent' = [sent EXCEPT ![t] = <<>>]
    /\ data' = IF t = "poll" /\ result = "returned" THEN Some(get_data) ELSE data
    /\ ev' = [op |-> "sendPacketBuffer", task |-> t, arg |-> result,
              snap |-> snap[t], sent |-> frames]

\* A _clearPacketBuffer that leaves the buffer as it is.
clearPacketBufferKeeps(t) ==
    /\ buf' = buf
    /\ lists' = lists

\* _clearPacketBuffer: self._packet_buffer = [] binds a NEW empty list; a
\* list another flush still iterates lives on, any other is garbage.
clearPacketBuffer(t) ==
    LET held  == {it[u] : u \in {v \in Tasks \ {t} : pc[v] = "writing"}}
        fresh == CHOOSE l \in ListIds \ held : \A m \in ListIds \ held : l <= m
    IN  /\ buf' = fresh
        /\ lists' = [l \in ListIds |-> IF l \in held THEN lists[l] ELSE <<>>]

\* The for loop of sendPacketBuffer starts on the live list: the first write
\* is issued on self._client, or, the list being empty, the loop is skipped.
BeginLoop(t, cl) ==
    IF packet_buffer = <<>>
    THEN /\ clearPacketBuffer(t)
         /\ Return(t, cl, "returned", sent[t])
    ELSE /\ pc' = [pc EXCEPT ![t] = "writing"]
         /\ it' = [it EXCEPT ![t] = buf]
         /\ idx' = [idx EXCEPT ![t] = 1]
         /\ Clients(cl, client, [wcli EXCEPT ![t] = client])
         /\ ev' = Quiet
         /\ UNCHANGED <<data, lists, buf, snap, sent>>

\* A sendPacketBuffer that connects anew whatever the client reports.
SendCallAlwaysConnects(t, b) ==
    /\ pc[t] = "idle"
    /\ lists' = [lists EXCEPT ![buf] = b]
    /\ UNCHANGED <<segmented, apiState, data, buf>>
    /\ IF b = <<>>
       THEN /\ ev' = [op |-> "sendPacketBuffer", task |-> t, arg |-> "nothing to do",
                      snap |-> b, sent |-> <<>>]
            /\ UNCHANGED <<clients, client, pc, it, idx, wcli, snap, sent>>
       ELSE /\ snap' = [snap EXCEPT ![t] = b]
            /\ sent' = [sent EXCEPT ![t] = <<>>]
            /\ ev' = Event("sendPacketBuffer", t, "called")
            /\ pc' = [pc EXCEPT ![t] = "connecting"]
            /\ UNCHANGED <<clients, client, it, idx, wcli>>

\* A sendPacketBuffer that makes sure of the connection before it looks at
\* the buffer.
SendCallConnectsFirst(t, b) ==
    /\ pc[t] = "idle"
    /\ lists' = [lists EXCEPT ![buf] = b]
    /\ UNCHANGED <<segmented, apiState, data, buf>>
    /\ IF b = <<>> /\ Connected(client)
       THEN /\ ev' = [op |-> "sendPacketBuffer", task |-> t, arg |-> "nothing to do",
                      snap |-> b, sent |-> <<>>]
            /\ UNCHANGED <<clients, client, pc, it, idx, wcli, snap, sent>>
       ELSE /\ snap' = [snap EXCEPT ![t] = b]
            /\ sent' = [sent EXCEPT ![t] = <<>>]
            /\ ev' = Event("sendPacketBuffer", t, "called")
            /\ IF Connected(client)
               THEN /\ pc' = [pc EXCEPT ![t] = "writing"]
                    /\ it' = [it EXCEPT ![t] = buf]
                    /\ idx' = [idx EXCEPT ![t] = 1]
                    /\ Clients(clients, client, [wcli EXCEPT ![t] = client])
               ELSE /\ pc' = [pc EXCEPT ![t] = "connecting"]
                    /\ UNCHANGED <<clients, client, it, idx, wcli>>

\* sendPacketBuffer, called by t with the live list holding b, up to its
\* first suspension.
SendCall(t, b) ==
    /\ pc[t] = "idle"
    /\ lists' = [lists EXCEPT ![buf] = b]
    /\ UNCHANGED <<segmented, apiState, data, buf>>
    /\ IF b = <<>>
       THEN /\ ev' = [op |-> "sendPacketBuffer", task |-> t, arg |-> "nothing to do",
                      snap |-> b, sent |-> <<>>]
            /\ UNCHANGED <<clients, client, pc, it, idx, wcli, snap, sent>>
       ELSE /\ snap' = [snap EXCEPT ![t] = b]
            /\ sent' = [sent EXCEPT ![t] = <<>>]
            /\ ev' = Event("sendPacketBuffer", t, "called")
            /\ IF Connected(client)
               THEN /\ pc' = [pc EXCEPT ![t] = "writing"]
                    /\ it' = [it EXCEPT ![t] = buf]
                    /\ idx' = [idx EXCEPT ![t] = 1]
                    /\ Clients(clients, client, [wcli EXCEPT ![t] = client])
               ELSE /\ pc' = [pc EXCEPT ![t] = "connecting"]
                    /\ UNCHANGED <<clients, client, it, idx, wcli>>

\* GoveeCoordinator.sendPacketBuffer, as the light entity calls it.
sendPacketBuffer(t) ==
    /\ t = "service"
    /\ SendCall(t, packet_buffer)

\* GoveeCoordinator._async_update_data: the three requests, then the flush.
async_update_data(t) ==
    /\ t = "poll"
    /\ LET b == requestColorBuffered(requestBrightnessBuffered(
                    requestStateBuffered(packet_buffer)))
       IN  /\ Len(b) <= MaxBuf
           /\ SendCall(t, b)

\* _connect: establish_connection returns a new client, which is bound to
\* self._client, and start_notify is called on it.
ConnectOk(t) ==
    /\ pc[t] = "connecting"
    /\ \E c \in ClientIds :
        /\ FreeClient(c)
        /\ \A d \in ClientIds : FreeClient(d) => c <= d
        /\ Clients([clients EXCEPT ![c] = [connected |-> TRUE, notify |-> FALSE]],
                   c, [wcli EXCEPT ![t] = c])
    /\ pc' = [pc EXCEPT ![t] = "subscribing"]
    /\ ev' = Quiet
    /\ UNCHANGED <<segmented, apiState, data, lists, buf, it, idx, snap, sent>>

\* A connect failure that also empties the buffer.
ConnectFailClears(t) ==
    /\ pc[t] = "connecting"
    /\ Return(t, clients, "ConnectionError", sent[t])
    /\ clearPacketBuffer(t)
    /\ UNCHANGED <<segmented, apiState>>

\* _connect: establish_connection raises after its retries.
ConnectFail(t) ==
    /\ pc[t] = "connecting"
    /\ Return(t, clients, "ConnectionError", sent[t])
    /\ UNCHANGED <<segmented, apiState, lists, buf>>

\* _connect: start_notify completes; the for loop starts.
SubscribeOk(t) ==
    /\ pc[t] = "subscribing"
    /\ Connected(wcli[t])
    /\ BeginLoop(t, [clients EXCEPT ![wcli[t]].notify = TRUE])
    /\ UNCHANGED <<segmented, apiState>>

\* _connect: start_notify raises.
SubscribeFail(t) ==
    /\ pc[t] = "subscribing"
    /\ Return(t, clients, "SubscribeError", sent[t])
    /\ UNCHANGED <<segmented, apiState, lists, buf>>

\* _transmitPacket: write_gatt_char completes; the loop goes on to the next
\* packet of the list it iterates, or past its end to _clearPacketBuffer.
WriteOk(t) ==
    /\ pc[t] = "writing"
    /\ Connected(wcli[t])
    /\ LET frames == Append(sent[t], generateFrame(lists[it[t]][idx[t]]))
       IN  IF idx[t] < Len(lists[it[t]])
           THEN /\ idx' = [idx EXCEPT ![t] = @ + 1]
                /\ Clients(clients, client, [wcli EXCEPT ![t] = client])
                /\ sent' = [sent EXCEPT ![t] = frames]
                /\ ev' = Quiet
                /\ UNCHANGED <<data, lists, buf, pc, it, snap>>
           ELSE /\ clearPacketBuffer(t)
                /\ Return(t, clients, "returned", frames)
    /\ UNCHANGED <<segmented, apiState>>

\* A write failure that clears the buffer on its way out.
WriteFailClears(t) ==
    /\ pc[t] = "writing"
    /\ Return(t, clients, "WriteError", sent[t])
    /\ clearPacketBuffer(t)
    /\ UNCHANGED <<segmented, apiState>>

\* _transmitPacket: write_gatt_char raises.
WriteFail(t) ==
    /\ pc[t] = "writing"
    /\ Return(t, clients, "WriteError", sent[t])
    /\ UNCHANGED <<segmented, apiState, lists, buf>>

\* The transport reports a session severed.
Sever(c) ==
    /\ clients[c].connected
    /\ clients' = [clients EXCEPT ![c] = [connected |-> FALSE, notify |-> FALSE]]
    /\ ev' = Quiet
    /\ UNCHANGED <<segmented, apiState, data, lists, buf, client, pc, it, idx, wcli,
                   snap, sent>>

(***************************************************************************)
(* Notifications: _handleReceive, _handleRequest and the update callback.  *)
(***************************************************************************)
\* Frames as the device sends them, by LedPacket.
RxPackets ==
    {LedPacket(REQUEST, POWER, <<v>>) : v \in {0, 1}}
    \cup {LedPacket(REQUEST, BRIGHTNESS, <<100>>),
          LedPacket(REQUEST, COLOR, <<SINGLE, 10, 20, 30>>),
          LedPacket(REQUEST, SEGMENT, <<1, SEGMENTS, 10, 20, 30>>),
          LedPacket(REQUEST, 7, <<1>>),
          LedPacket(COMMAND, POWER, <<1>>)}

\* A frame with one bit of byte i flipped on the way.
Corrupted(frame, i) ==
    [frame EXCEPT ![i] = IF (@ % 2) = 0 THEN @ + 1 ELSE @ - 1]

RxFrames ==
    {generateFrame(p) : p \in RxPackets}
    \cup {Corrupted(generateFrame(LedPacket(REQUEST, POWER, <<1>>)), i) : i \in {3, 20}}

\* _handleRequest that rescales with integer division.
handleRequestFloor(packet) ==
    LET payload == packet.payload
    IN  CASE packet.cmd = POWER ->
               [get_data EXCEPT !.state = Some(payload[1] = 1)]
          [] packet.cmd = BRIGHTNESS ->
               [get_data EXCEPT !.brightness =
                   Some(IF segmented THEN ((payload[1] * 255) \div 100) * BrightnessDen
                        ELSE payload[1] * BrightnessDen)]
          [] packet.cmd = COLOR ->
               [get_data EXCEPT !.color = Some(<<payload[2], payload[3], payload[4]>>)]
          [] packet.cmd = SEGMENT ->
               [get_data EXCEPT !.color = Some(<<payload[3], payload[4], payload[5]>>)]
          [] OTHER -> get_data

\* The api state after _handleRequest(packet).
handleRequest(packet) ==
    LET payload == packet.payload
    IN  CASE packet.cmd = POWER ->
               [get_data EXCEPT !.state = Some(payload[1] = 1)]
          [] packet.cmd = BRIGHTNESS ->
               [get_data EXCEPT !.brightness =
                   Some(IF segmented THEN (payload[1] * 255 * BrightnessDen) \div 100
                        ELSE payload[1] * BrightnessDen)]
          [] packet.cmd = COLOR ->
               [get_data EXCEPT !.color = Some(<<payload[2], payload[3], payload[4]>>)]
          [] packet.cmd = SEGMENT ->
               [get_data EXCEPT !.color = Some(<<payload[3], payload[4], payload[5]>>)]
          [] OTHER -> get_data

RxEvent(frame, calls) ==
    [op |-> "handleReceive", task |-> "device", arg |-> frame, calls |-> calls]

\* _handleReceive without the checksum test.
handleReceiveUnchecked(frame) ==
    /\ \E c \in ClientIds : clients[c].connected /\ clients[c].notify
    /\ LET packet == LedPacket(frame[1], frame[2], SubSeq(frame, 3, Len(frame) - 1))
       IN  IF packet.head = REQUEST
           THEN LET new == handleRequest(packet)
                IN  /\ state' = new.state
                    /\ brightness' = new.brightness
                    /\ color' = new.color
                    /\ effect' = new.effect
                    /\ data' = Some(new)
                    /\ ev' = RxEvent(frame, 1)
           ELSE /\ ev' = RxEvent(frame, 0)
                /\ UNCHANGED <<apiState, data>>
    /\ UNCHANGED <<segmented, lists, buf, clients, client, pc, it, idx, wcli, snap, sent>>

\* _handleReceive that awaits the update callback before _handleRequest.
handleReceiveCallbackFirst(frame) ==
    /\ \E c \in ClientIds : clients[c].connected /\ clients[c].notify
    /\ IF ~verifyChecksum(frame)
       THEN /\ ev' = RxEvent(frame, 0)
            /\ UNCHANGED <<apiState, data>>
       ELSE LET packet == LedPacket(frame[1], frame[2], SubSeq(frame, 3, Len(frame) - 1))
            IN  IF packet.head = REQUEST
                THEN LET new == handleRequest(packet)
                     IN  /\ state' = new.state
                         /\ brightness' = new.brightness
                         /\ color' = new.color
                         /\ effect' = new.effect
                         /\ data' = Some(get_data)
                         /\ ev' = RxEvent(frame, 1)
                ELSE /\ ev' = RxEvent(frame, 0)
                     /\ UNCHANGED <<apiState, data>>
    /\ UNCHANGED <<segmented, lists, buf, clients, client, pc, it, idx, wcli, snap, sent>>

\* _handleReceive: raise on a bad checksum; on a REQUEST head update the
\* state, then await the update callback (_async_push_data stores what
\* _get_data() reads at that moment).
handleReceive(frame) ==
    /\ \E c \in ClientIds : clients[c].connected /\ clients[c].notify
    /\ IF ~verifyChecksum(frame)
       THEN /\ ev' = RxEvent(frame, 0)
            /\ UNCHANGED <<apiState, data>>
       ELSE LET packet == LedPacket(frame[1], frame[2], SubSeq(frame, 3, Len(frame) - 1))
            IN  IF packet.head = REQUEST
                THEN LET new == handleRequest(packet)
                     IN  /\ state' = new.state
                         /\ brightness' = new.brightness
                         /\ color' = new.color
                         /\ effect' = new.effect
                         /\ data' = Some(new)
                         /\ ev' = RxEvent(frame, 1)
                ELSE /\ ev' = RxEvent(frame, 0)
                     /\ UNCHANGED <<apiState, data>>
    /\ UNCHANGED <<segmented, lists, buf, clients, client, pc, it, idx, wcli, snap, sent>>

(***************************************************************************)
(* The engine under concurrent callers: the poll and a turn-on (light.py's *)
(* async_turn_on: setStateBuffered(True), then sendPacketBuffer) run as    *)
(* separate tasks and interleave at every suspension.  The device stays    *)
(* silent here; the cache is the subject of SpecCache.                     *)
(***************************************************************************)
Next ==
    \/ \E t \in Tasks : setStateBuffered(t, TRUE)
    \/ \E t \in Tasks : sendPacketBuffer(t)
    \/ \E t \in Tasks : async_update_data(t)
    \/ \E t \in Tasks : ConnectOk(t)
    \/ \E t \in Tasks : ConnectFail(t)
    \/ \E t \in Tasks : SubscribeOk(t)
    \/ \E t \in Tasks : SubscribeFail(t)
    \/ \E t \in Tasks : WriteOk(t)
    \/ \E t \in Tasks : WriteFail(t)
    \/ \E c \in ClientIds : Sever(c)

Spec == Init /\ [][Next]_vars

(***************************************************************************)
(* The engine and its cache when callers take turns: a caller starts a     *)
(* call only while the other one is idle; the device answers and the link  *)
(* drops at any moment.                                                    *)
(***************************************************************************)
Alone(t) == \A u \in Tasks \ {t} : pc[u] = "idle"

NextCache ==
    \/ \E t \in Tasks : \E v \in BOOLEAN : Alone(t) /\ setStateBuffered(t, v)
    \/ \E t \in Tasks : \E b \in BrightnessIn : Alone(t) /\ setBrightnessBuffered(t, b)
    \/ \E t \in Tasks : \E rgb \in ColorsIn : Alone(t) /\ setColorBuffered(t, rgb)
    \/ \E t \in Tasks : \E n \in EffectNamesIn : Alone(t) /\ setEffectBuffered(t, n)
    \/ \E t \in Tasks : Alone(t) /\ sendPacketBuffer(t)
    \/ \E t \in Tasks : Alone(t) /\ async_update_data(t)
    \/ \E t \in Tasks : ConnectOk(t)
    \/ \E t \in Tasks : ConnectFail(t)
    \/ \E t \in Tasks : SubscribeOk(t)
    \/ \E t \in Tasks : SubscribeFail(t)
    \/ \E t \in Tasks : WriteOk(t)
    \/ \E t \in Tasks : WriteFail(t)
    \/ \E c \in ClientIds : Sever(c)
    \/ \E frame \in RxFrames : handleReceive(frame)

SpecCache == Init /\ [][NextCache]_vars

(***************************************************************************)
(* Properties.                                                             *)
(***************************************************************************)
Frames(b) == [i \in 1..Len(b) |-> generateFrame(b[i])]
IsPrefix(a, b) == Len(a) <= Len(b) /\ SubSeq(b, 1, Len(a)) = a
Returned(t) == pc[t] # "idle" /\ pc'[t] = "idle"

\* C1: when establish_connection raises inside sendPacketBuffer, the caller
\* gets the connection error, the call has written no frame, and the packet
\* buffer is the list it was, holding what it held when the call was made.
\* What is in the buffer stays there, in its order, through every step but
\* the normal return of a call, and the call that returns normally has
\* written the frame of every packet that was in the buffer, in buffer
\* order: so the next call that gets through writes all the packets the
\* failure left behind.
C1_ConnectFailureKeepsBuffer ==
    [][/\ \A t \in Tasks :
            (pc[t] = "connecting" /\ pc'[t] = "idle") =>
                /\ ev'.op = "sendPacketBuffer" /\ ev'.task = t
                /\ ev'.arg = "ConnectionError"
                /\ ev'.sent = <<>>
                /\ lists' = lists /\ buf' = buf
                /\ lists'[buf'] = ev'.snap
       /\ IF \E t \in Tasks : Returned(t) /\ ev'.arg = "returned"
          THEN /\ Len(ev'.sent) = Len(packet_buffer)
               /\ \A i \in 1..Len(packet_buffer) :
                     ev'.sent[i] = generateFrame(packet_buffer[i])
          ELSE IsPrefix(packet_buffer, lists'[buf'])]_vars

\* C1 witness: a connect has just failed on a call made with packets in the
\* buffer, and the buffer holds them still.
C1_Witness ==
    /\ ev.op = "sendPacketBuffer" /\ ev.arg = "ConnectionError"
    /\ ev.snap # <<>>
    /\ ev.sent = <<>>
    /\ packet_buffer = ev.snap

\* C2: at most one sendPacketBuffer call of the instance is past its first
\* suspension (connecting, subscribing or writing) at any time.
C2_OneFlushInFlight ==
    \A t \in Tasks : \A u \in Tasks \ {t} : pc[t] = "idle" \/ pc[u] = "idle"

\* C8: when write_gatt_char raises in the middle of sendPacketBuffer, the
\* caller gets the error, the call has written exactly the packets before
\* the failing one, the buffer is not cleared, and the list the call was
\* iterating still holds the packets already written and the failing one.
C8_WriteFailureAborts ==
    [][\A t \in Tasks :
        (pc[t] = "writing" /\ pc'[t] = "idle" /\ ev'.arg # "returned") =>
            /\ ev'.op = "sendPacketBuffer" /\ ev'.task = t /\ ev'.arg = "WriteError"
            /\ ev'.sent = sent[t]
            /\ Len(sent[t]) = idx[t] - 1
            /\ lists' = lists /\ buf' = buf
            /\ Len(lists'[it[t]]) >= idx[t]
            /\ \A i \in 1..Len(sent[t]) : sent[t][i] = generateFrame(lists'[it[t]][i])]_vars

\* C8 witness: a write has just failed after earlier packets of the same
\* call went out, and the live buffer still holds them.
C8_Witness ==
    /\ ev.op = "sendPacketBuffer" /\ ev.arg = "WriteError"
    /\ ev.sent # <<>>
    /\ IsPrefix(ev.sent, Frames(packet_buffer))
    /\ Len(packet_buffer) > Len(ev.sent)

\* C3: a sendPacketBuffer call that returns normally has written exactly
\* one frame for each packet the buffer held when it was called, in buffer
\* order, and the packet buffer is empty when it returns.
C3_FlushWritesAllInOrder ==
    (ev.op = "sendPacketBuffer" /\ ev.arg = "returned") =>
        /\ ev.sent = Frames(ev.snap)
        /\ packet_buffer = <<>>

\* C3 witness: a call has returned after writing a command and the request
\* behind it, in that order.
C3_Witness ==
    /\ ev.op = "sendPacketBuffer" /\ ev.arg = "returned"
    /\ Len(ev.snap) >= 2 * Repeat
    /\ ev.snap[1].head = COMMAND /\ ev.snap[Len(ev.snap)].head = REQUEST
    /\ ev.sent = Frames(ev.snap)
    /\ packet_buffer = <<>>

SetOps == {"setStateBuffered", "setBrightnessBuffered", "setColorBuffered",
           "setEffectBuffered"}

\* The step handles a notification whose checksum is right and whose head
\* is REQUEST.
ValidRequestStep ==
    /\ ev'.op = "handleReceive"
    /\ verifyChecksum(ev'.arg)
    /\ ev'.arg[1] = REQUEST

\* C4 as stated: the four cached fields start unset and change only while a
\* checksum-valid REQUEST-head notification is handled.
C4_OnlyNotificationsChangeState ==
    [][apiState' # apiState => ValidRequestStep]_vars

\* C4: power, brightness and color change only while a checksum-valid
\* REQUEST-head notification is handled; the cached effect is changed by no
\* notification but by two intents: setEffectBuffered sets it to the known
\* name it is given, setColorBuffered unsets it.  Every other step (the
\* other intents, the requests of the poll, sendPacketBuffer and what it
\* awaits) leaves all four fields alone.
C4_StateChangesByNotificationEffectByIntent ==
    [][/\ <<state, brightness, color>>' # <<state, brightness, color>> => ValidRequestStep
       /\ effect' # effect =>
            \/ /\ ev'.op = "setEffectBuffered"
               /\ effect_name_to_code(ev'.arg) # None
               /\ effect' = Some(ev'.arg)
            \/ /\ ev'.op = "setColorBuffered"
               /\ effect' = None]_vars

\* C4 witness: a flush has written a power-on command and returned, and the
\* cached power is still unset.
C4_Witness ==
    /\ ev.op = "sendPacketBuffer" /\ ev.arg = "returned"
    /\ ev.sent # <<>>
    /\ ev.sent[1] = generateFrame(LedPacket(COMMAND, POWER, <<1>>))
    /\ state = None

\* The value the intent op is given differs from the cached one.
Differs(op, arg) ==
    CASE op = "setStateBuffered" -> state # Some(arg)
      [] op = "setBrightnessBuffered" -> brightness # Some(arg * BrightnessDen)
      [] op = "setColorBuffered" -> color # Some(arg)
      [] op = "setEffectBuffered" -> effect # Some(arg)

\* The command codes of the packets that command, and that request, the
\* field the intent op sets.
FieldCmds(op) ==
    CASE op = "setStateBuffered" -> {POWER}
      [] op = "setBrightnessBuffered" -> {BRIGHTNESS}
      [] op = "setColorBuffered" -> {COLOR, SEGMENT}
      [] op = "setEffectBuffered" -> {COLOR}

\* What the step appended to the live list.
Appended ==
    SubSeq(lists'[buf'], Len(packet_buffer) + 1, Len(lists'[buf']))

\* The appended packets are COMMAND packets of the field of op followed by
\* Repeat REQUEST packets of the same field.
CommandThenRequest(op) ==
    /\ Len(Appended) >= 2 * Repeat
    /\ \A i \in 1..Len(Appended) :
         /\ Appended[i].cmd \in FieldCmds(op)
         /\ Appended[i].head = IF i > Len(Appended) - Repeat THEN REQUEST ELSE COMMAND

\* C5 as stated: every set intent, the effect intent included, whose value
\* differs from the cached one appends COMMAND packets and then a matching
\* REQUEST packet.
C5_EverySetIntentRequests ==
    [][(ev'.op \in SetOps /\ Differs(ev'.op, ev'.arg)) =>
          /\ buf' = buf /\ IsPrefix(packet_buffer, lists'[buf'])
          /\ CommandThenRequest(ev'.op)]_vars

\* C5: a power, brightness or color intent whose value differs from the
\* cached one appends its COMMAND packets and then the REQUEST packets of
\* the same field; an effect intent whose name is known and differs from the
\* cached effect appends only the COMMAND packet [EFFECT, code], Repeat
\* times, and no REQUEST; an effect intent with an unknown name appends
\* nothing.
C5_SetIntentRequestsExceptEffect ==
    [][(ev'.op \in SetOps /\ Differs(ev'.op, ev'.arg)) =>
          /\ buf' = buf /\ IsPrefix(packet_buffer, lists'[buf'])
          /\ IF ev'.op # "setEffectBuffered"
             THEN CommandThenRequest(ev'.op)
             ELSE LET code == effect_name_to_code(ev'.arg)
                  IN  IF code = None
                      THEN Appended = <<>>
                      ELSE Appended = [i \in 1..Repeat |->
                                         LedPacket(COMMAND, COLOR, <<EFFECT, code[1]>>)]]_vars

\* C5 witness: the buffer holds a command with its request, and behind them
\* the command of an effect intent with no request after it.
C5_Witness ==
    /\ ev.op = "setEffectBuffered"
    /\ Len(packet_buffer) = 3 * Repeat
    /\ packet_buffer[1].head = COMMAND
    /\ packet_buffer[2 * Repeat].head = REQUEST
    /\ packet_buffer[1].cmd = packet_buffer[2 * Repeat].cmd
    /\ packet_buffer[3 * Repeat] = LedPacket(COMMAND, COLOR, <<EFFECT, 10>>)

\* C6: after any setColorBuffered call the cached effect is unset.
C6_ColorClearsEffect ==
    ev.op = "setColorBuffered" => effect = None

\* C7: a set intent whose value equals the cached value leaves the packet
\* buffer as it is, for power, brightness, color and effect alike.
C7_EqualValueAppendsNothing ==
    [][(ev'.op \in SetOps /\ ~Differs(ev'.op, ev'.arg)) =>
          lists' = lists /\ buf' = buf]_vars

\* C7 witness: setStateBuffered(True) has just been called with the cached
\* power True, and the buffer is empty.
C7_Witness ==
    /\ ev.op = "setStateBuffered" /\ ev.arg = TRUE
    /\ state = Some(TRUE)
    /\ packet_buffer = <<>>
    /\ \A t \in Tasks : pc[t] = "idle"

\* The packet _handleReceive decodes from a frame.
Decoded(frame) == LedPacket(frame[1], frame[2], SubSeq(frame, 3, Len(frame) - 1))

\* C9: a notification whose last byte is not the XOR of the bytes before it
\* changes no cached field, reaches no update callback and leaves the
\* subscription as it was; a checksum-valid REQUEST notification that comes
\* right after it is handled as any other: the state is updated from it and
\* the callback is called.
C9_BadChecksumDiscarded ==
    [][/\ (ev'.op = "handleReceive" /\ ~verifyChecksum(ev'.arg)) =>
            /\ apiState' = apiState /\ data' = data
            /\ ev'.calls = 0
            /\ flushState' = flushState
       /\ (/\ ev.op = "handleReceive" /\ ~verifyChecksum(ev.arg)
           /\ ValidRequestStep) =>
            /\ get_data' = handleRequest(Decoded(ev'.arg))
            /\ data' = Some(get_data')
            /\ ev'.calls = 1]_vars

\* C9 witness: a corrupted power-on response has just been handled while the
\* cache was unset, and the cache and the coordinator's data are still unset.
C9_Witness ==
    /\ ev.op = "handleReceive"
    /\ ~verifyChecksum(ev.arg)
    /\ ev.arg[1] = REQUEST
    /\ ev.calls = 0
    /\ state = None /\ data = None

\* C10: handling a checksum-valid REQUEST-head notification calls the update
\* callback once, after the state has been updated from the frame, so the
\* coordinator stores the new state; a checksum-valid notification with any
\* other head changes no cached field and calls no callback.
C10_CallbackOnceAfterUpdate ==
    [][(ev'.op = "handleReceive" /\ verifyChecksum(ev'.arg)) =>
          IF ev'.arg[1] = REQUEST
          THEN /\ ev'.calls = 1
               /\ get_data' = handleRequest(Decoded(ev'.arg))
               /\ data' = Some(get_data')
          ELSE /\ ev'.calls = 0
               /\ apiState' = apiState /\ data' = data]_vars

\* C10 witness: a color response has just been handled, the callback ran
\* once and the coordinator holds the color the frame carried.
C10_Witness ==
    /\ ev.op = "handleReceive" /\ ev.calls = 1
    /\ verifyChecksum(ev.arg)
    /\ Decoded(ev.arg).cmd \in {COLOR, SEGMENT}
    /\ color = Some(<<10, 20, 30>>)
    /\ data = Some(get_data)

\* C11: sendPacketBuffer called with an empty buffer returns at once: no
\* connect is started, nothing is written, and the buffer, the client handle
\* and every session are as they were, with or without a connection.
C11_EmptyFlushDoesNothing ==
    [][(/\ ev'.op = "sendPacketBuffer" /\ ev'.task = "service"
        /\ pc["service"] = "idle"
        /\ packet_buffer = <<>>) =>
           /\ ev'.arg = "nothing to do"
           /\ ev'.sent = <<>>
           /\ flushState' = flushState
           /\ apiState' = apiState /\ data' = data]_vars

\* C11 witness: sendPacketBuffer has just returned from a call with an empty
\* buffer while the client was connected, and no call is in flight.
C11_Witness ==
    /\ ev.op = "sendPacketBuffer" /\ ev.arg = "nothing to do"
    /\ packet_buffer = <<>>
    /\ Connected(client)
    /\ \A t \in Tasks : pc[t] = "idle"

\* p, three times.
Thrice(p) == <<p, p, p>>

\* The packets of one color intent, spelled out: for a legacy device the
\* SINGLE command, the LEGACY command and the COLOR request; for a segmented
\* device the SEGMENTS command for segment 1 and the SEGMENT request [1].
ColorPackets(seg, rgb) ==
    IF seg
    THEN Thrice([head |-> 51, cmd |-> 5,
                 payload |-> <<21, 1, rgb[1], rgb[2], rgb[3], 0, 0, 0, 0, 0, 255, 255>>])
         \o Thrice([head |-> 170, cmd |-> 165, payload |-> <<1>>])
    ELSE Thrice([head |-> 51, cmd |-> 5, payload |-> <<2, rgb[1], rgb[2], rgb[3]>>])
         \o Thrice([head |-> 51, cmd |-> 5, payload |-> <<13, rgb[1], rgb[2], rgb[3]>>])
         \o Thrice([head |-> 170, cmd |-> 5, payload |-> <<>>])

\* The frames of setColorBuffered(255, 0, 0), byte by byte.
RedFrames(seg) ==
    IF seg
    THEN Thrice(<<51, 5, 21, 1, 255, 0, 0, 0, 0, 0, 0, 0, 255, 255, 0, 0, 0, 0, 0, 221>>)
         \o Thrice(<<170, 165, 1, 0, 0, 0, 0, 0, 0, 0, 0, 0, 0, 0, 0, 0, 0, 0, 0, 14>>)
    ELSE Thrice(<<51, 5, 2, 255, 0, 0, 0, 0, 0, 0, 0, 0, 0, 0, 0, 0, 0, 0, 0, 203>>)
         \o Thrice(<<51, 5, 13, 255, 0, 0, 0, 0, 0, 0, 0, 0, 0, 0, 0, 0, 0, 0, 0, 196>>)
         \o Thrice(<<170, 5, 0, 0, 0, 0, 0, 0, 0, 0, 0, 0, 0, 0, 0, 0, 0, 0, 0, 175>>)

\* C12: on a fresh engine (cache unset, buffer empty) setColorBuffered
\* appends exactly the packets of ColorPackets, 9 for a legacy device and 6
\* for a segmented one; a flush called with exactly those packets that
\* returns normally has written one frame per packet in that order (for
\* (255, 0, 0) the frames of RedFrames) and leaves the buffer empty.
C12_ColorPacketsAndFlush ==
    [][/\ (/\ ev'.op = "setColorBuffered"
           /\ packet_buffer = <<>>
           /\ apiState = <<None, None, None, None>>) =>
              /\ lists'[buf'] = ColorPackets(segmented, ev'.arg)
              /\ Len(lists'[buf']) = IF segmented THEN 6 ELSE 9
       /\ \A rgb \in ColorsIn :
            (/\ \E t \in Tasks : Returned(t)
             /\ ev'.arg = "returned"
             /\ ev'.snap = ColorPackets(segmented, rgb)) =>
                /\ Len(ev'.sent) = Len(ev'.snap)
                /\ \A i \in 1..Len(ev'.snap) : ev'.sent[i] = generateFrame(ev'.snap[i])
                /\ rgb = <<255, 0, 0>> => ev'.sent = RedFrames(segmented)
                /\ lists'[buf'] = <<>>]_vars

\* C12 witness: on a legacy device a flush called with the nine packets of
\* setColorBuffered(255, 0, 0) has returned, having written the nine frames.
C12_Witness ==
    /\ ~segmented
    /\ ev.op = "sendPacketBuffer" /\ ev.arg = "returned"
    /\ ev.snap = ColorPackets(FALSE, <<255, 0, 0>>)
    /\ ev.sent = RedFrames(FALSE)
    /\ packet_buffer = <<>>

\* The thirteen effect names the engine knows.
KnownEffects ==
    {"Sunrise", "Sunset", "Movie", "Dating", "Romantic", "Blinking",
     "Candlelight", "Snowflake", "Energetic", "Spectrum", "Rainbow",
     "Breathing", "Crossing"}

\* C16: setEffectBuffered with a name that is not one of the thirteen known
\* names returns normally and changes nothing: the buffer holds the same
\* packets as before (packets already buffered stay) and the four cached
\* fields, the sessions and the coordinator's data are as they were.
C16_UnknownEffectIgnored ==
    [][(ev'.op = "setEffectBuffered" /\ ev'.arg \notin KnownEffects) =>
          /\ lists' = lists /\ buf' = buf
          /\ apiState' = apiState
          /\ flushState' = flushState
          /\ data' = data]_vars

\* C16 witness: setEffectBuffered("Disco") has just run on an engine that
\* holds buffered packets and a cached effect, and both are still there.
C16_Witness ==
    /\ ev.op = "setEffectBuffered" /\ ev.arg = "Disco"
    /\ ev.arg \notin KnownEffects
    /\ packet_buffer # <<>>
    /\ effect = Some("Rainbow")
    /\ Cardinality(KnownEffects) = 13
    /\ KnownEffects = {EFFECT_LIST[i] : i \in 1..Len(EFFECT_LIST)}

\* self._client is set and has a completed start_notify.
Subscribed(c) == c # 0 /\ clients[c].notify

\* C17: a call starts to connect only when it is a sendPacketBuffer call
\* with a non-empty buffer that finds no connected client; a call that finds
\* the client connected goes straight to its writes on that client, which is
\* neither replaced nor subscribed again; the engine's client becomes
\* connected only by the connect of such a call and subscribed only by its
\* subscribe step; it stops being connected only in a step in which the
\* engine does nothing (the transport severs it), and then stays so until a
\* non-empty flush connects again.
C17_ConnectOnlyInNonEmptyFlush ==
    [][/\ \A t \in Tasks :
           /\ (pc'[t] = "connecting" /\ pc[t] # "connecting") =>
                 /\ pc[t] = "idle"
                 /\ ev'.op = "sendPacketBuffer" /\ ev'.task = t
                 /\ snap'[t] # <<>>
                 /\ ~Connected(client)
           /\ (pc'[t] = "subscribing" /\ pc[t] # "subscribing") => pc[t] = "connecting"
           /\ (pc[t] = "idle" /\ pc'[t] # "idle" /\ Connected(client)) =>
                 /\ pc'[t] = "writing"
                 /\ wcli'[t] = client'
                 /\ clients'[client'] = clients[client]
       /\ (~Connected(client) /\ Connected(client)') =>
             \E t \in Tasks : /\ pc[t] = "connecting" /\ pc'[t] = "subscribing"
                              /\ snap[t] # <<>>
       /\ (~Subscribed(client) /\ Subscribed(client)') =>
             \E t \in Tasks : pc[t] = "subscribing" /\ pc'[t] # "subscribing"
       /\ (Connected(client) /\ ~Connected(client)') =>
             /\ ev' = Quiet
             /\ UNCHANGED <<apiState, data, lists, buf, pc, it, idx, snap, sent>>]_vars

\* C17 witness: a flush with packets to send has found the client connected
\* and subscribed and is at its first write on that same session.
C17_Witness ==
    /\ ev.op = "sendPacketBuffer" /\ ev.arg = "called" /\ ev.task = "service"
    /\ pc["service"] = "writing" /\ pc["poll"] = "idle"
    /\ idx["service"] = 1
    /\ Connected(client) /\ Subscribed(client)
    /\ wcli["service"] = client

\* C18: whenever a flush has a write in progress on a connected session,
\* start_notify has completed on that session, so every frame that gets
\* written is written to a subscribed session.
C18_WritesOnlyWhenSubscribed ==
    \A t \in Tasks :
        (pc[t] = "writing" /\ Connected(wcli[t])) => clients[wcli[t]].notify

(***************************************************************************)
(* The poll and a turn-on running concurrently on a link on which every    *)
(* connect, subscribe and write succeeds: whatever a list has had written  *)
(* of it is then known from the calls that iterate it.                     *)
(***************************************************************************)
NextOverlap ==
    \/ \E t \in Tasks : setStateBuffered(t, TRUE)
    \/ \E t \in Tasks : sendPacketBuffer(t)
    \/ \E t \in Tasks : async_update_data(t)
    \/ \E t \in Tasks : ConnectOk(t)
    \/ \E t \in Tasks : SubscribeOk(t)
    \/ \E t \in Tasks : WriteOk(t)

SpecOverlap == Init /\ [][NextOverlap]_vars

\* The packets of the live list are written or sure to be when the call of
\* t ends: t iterated the live list itself (to its end), or another call is
\* iterating it and will write each of its packets.
Written(t) ==
    \/ it[t] = buf
    \/ \E u \in Tasks \ {t} : pc[u] = "writing" /\ it[u] = buf

\* C19: when a flush reaches its clear step, the list that the clear step
\* takes out of the buffer holds no packet that has not been written and
\* that no call is about to write.
C19_NoPacketDroppedUnwritten ==
    [][\A t \in Tasks :
          (Returned(t) /\ ev'.arg = "returned") =>
              (lists[buf] = <<>> \/ Written(t))]_vars

(***************************************************************************)
(* GoveeUtils on its own: generateFrame applied to packets with payloads   *)
(* of every length up to MaxPayload, and verifyChecksum applied to the     *)
(* frames it returns, as returned and with one bit flipped on the way.     *)
(***************************************************************************)
\* n payload bytes: v, 2v, 3v, ... modulo 256.
Fill(n, v) == [i \in 1..n |-> (v * i) % 256]

CodecPackets ==
    {LedPacket(h, c, Fill(n, v)) :
        h \in {COMMAND, REQUEST}, c \in {COLOR, SEGMENT},
        n \in 0..MaxPayload, v \in {1, 255}}

\* The frame with bit k of its byte i flipped.
FlipBit(frame, i, k) == [frame EXCEPT ![i] = XorTable[@][2^k]]

InitCodec ==
    /\ segmented = FALSE
    /\ state = None
    /\ brightness = None
    /\ color = None
    /\ effect = None
    /\ data = None
    /\ lists = [l \in ListIds |-> <<>>]
    /\ buf = 1
    /\ clients = [c \in ClientIds |-> [connected |-> FALSE, notify |-> FALSE]]
    /\ client = 0
    /\ pc = [t \in Tasks |-> "idle"]
    /\ it = [t \in Tasks |-> 0]
    /\ idx = [t \in Tasks |-> 0]
    /\ wcli = [t \in Tasks |-> 0]
    /\ snap = [t \in Tasks |-> <<>>]
    /\ sent = [t \in Tasks |-> <<>>]
    /\ \E packet \in CodecPackets : ev = Event("LedPacket", "none", packet)

\* generateFrame(packet) returns; it has no raise on any path.
GenerateFrame ==
    /\ ev.op = "LedPacket"
    /\ ev' = [op |-> "generateFrame", task |-> "none", arg |-> ev.arg,
              result |-> Some(generateFrame(ev.arg))]
    /\ UNCHANGED <<segmented, apiState, data, flushState>>

\* The frame reaches the other side with bit k of byte i flipped.
Corrupt(i, k) ==
    /\ ev.op = "generateFrame"
    /\ i <= Len(ev.result[1])
    /\ ev' = [op |-> "corrupt", task |-> "none", arg |-> ev.result[1],
              result |-> Some(FlipBit(ev.result[1], i, k)), byte |-> i]
    /\ UNCHANGED <<segmented, apiState, data, flushState>>

\* verifyChecksum(frame) on the frame as generated or as corrupted.
VerifyChecksum ==
    /\ ev.op \in {"generateFrame", "corrupt"}
    /\ ev' = [op |-> "verifyChecksum", task |-> "none", arg |-> ev.result[1],
              result |-> verifyChecksum(ev.result[1]),
              flipped |-> IF ev.op = "corrupt" THEN ev.byte ELSE 0]
    /\ UNCHANGED <<segmented, apiState, data, flushState>>

NextCodec ==
    \/ GenerateFrame
    \/ \E i \in 1..(MaxPayload + 3) : \E k \in 0..7 : Corrupt(i, k)
    \/ VerifyChecksum

SpecCodec == InitCodec /\ [][NextCodec]_vars

\* Bit k of byte b.
Bit(b, k) == (b \div (2^k)) % 2

\* Bit k of the XOR of the first n bytes: set when an odd number of them
\* have it set.
ParityBit(bytes, n, k) ==
    Cardinality({i \in 1..n : Bit(bytes[i], k) = 1}) % 2

\* The frame the packet is to be encoded as: head, command, the payload,
\* zeros up to byte 19, and the XOR of those 19 bytes.
Framed(packet) ==
    LET body == [i \in 1..FrameBody |->
                    IF i = 1 THEN packet.head
                    ELSE IF i = 2 THEN packet.cmd
                    ELSE IF i <= 2 + Len(packet.payload) THEN packet.payload[i - 2]
                    ELSE 0]
    IN  Append(body, ParityBit(body, FrameBody, 0) + 2 * ParityBit(body, FrameBody, 1)
                     + 4 * ParityBit(body, FrameBody, 2) + 8 * ParityBit(body, FrameBody, 3)
                     + 16 * ParityBit(body, FrameBody, 4) + 32 * ParityBit(body, FrameBody, 5)
                     + 64 * ParityBit(body, FrameBody, 6) + 128 * ParityBit(body, FrameBody, 7))

\* C13: generateFrame returns exactly the 20-byte frame [head, cmd, payload
\* zero-padded to 17 bytes, XOR of the 19 bytes before] for a payload of 0
\* to 17 bytes, and returns no frame (an encoding error) for a longer one.
C13_FrameOrEncodingError ==
    [][ev'.op = "generateFrame" =>
          IF Len(ev'.arg.payload) <= 17
          THEN ev'.result = Some(Framed(ev'.arg)) /\ Len(ev'.result[1]) = 20
          ELSE ev'.result = None]_vars

\* C14: verifyChecksum answers true exactly when the last byte of the frame
\* is the XOR of the bytes before it; it answers true for every frame that
\* generateFrame returned, and false for such a frame with any one bit of
\* its bytes 0..18 flipped.
C14_VerifyIffXorOfPreceding ==
    [][ev'.op = "verifyChecksum" =>
          LET frame == ev'.arg
              n     == Len(frame) - 1
          IN  /\ ev'.result =
                    (\A k \in 0..7 : Bit(frame[n + 1], k) = ParityBit(frame, n, k))
              /\ ev'.flipped = 0 => ev'.result
              /\ ev'.flipped \in 1..FrameBody => ~ev'.result]_vars

\* C14 witness: the top bit of byte 18 of a 20-byte frame was flipped and
\* verifyChecksum has answered false.
C14_Witness ==
    /\ ev.op = "verifyChecksum"
    /\ ev.flipped = FrameBody
    /\ Len(ev.arg) = 20
    /\ ev.arg[FrameBody] >= 128
    /\ ~ev.result

(***************************************************************************)
(* Brightness alone: the light entity sets a brightness and flushes on a   *)
(* link without failures, and the device reports a brightness at any       *)
(* moment.                                                                 *)
(***************************************************************************)
\* Brightness values the entity asks for.
BrightnessSetIn == {128, 255}

\* Payload bytes of the device's brightness reports.
BrightnessReports == (0..100) \cup {128, 255}

BrightnessFrames ==
    {generateFrame(LedPacket(REQUEST, BRIGHTNESS, <<p>>)) : p \in BrightnessReports}

NextBrightness ==
    \/ \E t \in Tasks : \E b \in BrightnessSetIn : setBrightnessBuffered(t, b)
    \/ \E t \in Tasks : sendPacketBuffer(t)
    \/ \E t \in Tasks : ConnectOk(t)
    \/ \E t \in Tasks : SubscribeOk(t)
    \/ \E t \in Tasks : WriteOk(t)
    \/ \E frame \in BrightnessFrames : handleReceive(frame)

SpecBrightness == Init /\ [][NextBrightness]_vars

\* C15: after a checksum-valid REQUEST BRIGHTNESS notification with payload
\* byte p the cached brightness is p * 255 / 100 on a segmented device, for
\* p in 0..100 (255 for p = 100), and p itself on a legacy device (128 for
\* p = 128).  The cache is counted in twentieths.
C15_BrightnessRescaled ==
    [][(ValidRequestStep /\ ev'.arg[2] = BRIGHTNESS) =>
          LET p == ev'.arg[3]
          IN  /\ brightness' # None
              /\ IF segmented
                 THEN p <= 100 =>
                        /\ brightness'[1] * 100 = p * 255 * BrightnessDen
                        /\ p = 100 => brightness' = Some(255 * BrightnessDen)
                 ELSE /\ brightness' = Some(p * BrightnessDen)
                      /\ p = 128 => brightness' = Some(128 * BrightnessDen)]_vars

\* C15 witness: a segmented device has reported brightness 50 and the cache
\* holds 127.5.
C15_Witness ==
    /\ segmented
    /\ ev.op = "handleReceive" /\ verifyChecksum(ev.arg)
    /\ ev.arg[1] = REQUEST /\ ev.arg[2] = BRIGHTNESS /\ ev.arg[3] = 50
    /\ brightness = Some(2550)

\* The payload byte setBrightnessBuffered(b) sends.
BrightnessPayload(b) == IF segmented THEN RoundPercent(b) ELSE b

\* C20: setBrightnessBuffered(b) that comes right after the device's
\* response carrying the payload byte sent for b appends no packet.  (The
\* cache after a response depends on the response alone, so the flush that
\* went before it need not be told apart.)
C20_EchoSuppressesRepeat ==
    [][(/\ ev'.op = "setBrightnessBuffered"
        /\ ev.op = "handleReceive" /\ verifyChecksum(ev.arg)
        /\ ev.arg[1] = REQUEST /\ ev.arg[2] = BRIGHTNESS
        /\ ev.arg[3] = BrightnessPayload(ev'.arg)) =>
           lists' = lists]_vars

====
